---- MODULE Spec2Model ----
(***************************************************************************)
(* QuantEngine: MarketData<T> (src/src/Core/MarketData.cpp),               *)
(* EuropeanStockOption<T> (src/src/Instruments/EuropeanStockOption.cpp)    *)
(* and BlackScholesEngine<T> (src/src/PricingEngines/                      *)
(* BlackScholesEngine.cpp).                                                *)
(*                                                                         *)
(* A MarketData object holds a yield curve (std::map<T,T>), a volatility   *)
(* surface (std::map<std::pair<T,T>,T>) and two sorted vectors with the    *)
(* strikes and the maturities seen.  Its four operations are modelled as   *)
(* actions; the variable `last` records the most recent call, its          *)
(* arguments, what it returned or threw and, for an add, whether the key   *)
(* was new (`fresh`).                                                      *)
(*                                                                         *)
(* The four variables of the MarketData object are the object the caller   *)
(* holds and passes to updateMarketData and to the engine.  `instruments`  *)
(* holds the EuropeanStockOption objects by number, each with its members  *)
(* params_, pricingEngine_ (0 is the null pointer, otherwise the number of *)
(* an engine) and marketData_ (a MarketData of its own), and `alive`,      *)
(* which is FALSE until the constructor has returned.  `engines` is the    *)
(* set of BlackScholesEngine objects that exist; the class has no data     *)
(* member.  `fetcher` is the call of DataFetcher in progress.              *)
(*                                                                         *)
(* Numbers.  Arguments and stored values are integers.  A value computed   *)
(* by the floating-point expressions of the getters is an exact fraction   *)
(* <<n, d>> with d >= 0: d > 0 is the rational n/d in lowest terms, and    *)
(* d = 0 holds the IEEE-754 specials a division by zero produces           *)
(* (<<0,0>> NaN, <<1,0>> +inf, <<-1,0>> -inf).  Rounding is not modelled.  *)
(***************************************************************************)
EXTENDS Integers, Sequences, FiniteSets, TLC

VARIABLES yield_curve_, vol_surface_, strikes_, maturities_, last,
          instruments, engines, fetcher

vars == <<yield_curve_, vol_surface_, strikes_, maturities_, last,
          instruments, engines, fetcher>>

(***************************************************************************)
(* Bounds of the exploration.                                              *)
(***************************************************************************)
\* most surface points of an object on which only the surface is used
MaxSurfacePoints == 4
\* most curve points of an object on which only the yield curve is used
MaxCurvePoints == 3
\* most points, curve and surface together, of an object on which both are used
MaxPoints == 3
\* most BlackScholesEngine objects
MaxEngines == 2

\* arguments of addVolatility.  Recorded axis values are two apart, so that a
\* query can fall strictly between two adjacent ones; the last five triples
\* are the rejected ones
VolatilityArgs ==
    ({1, 3, 5} \X {0, 2} \X {0, 2})
        \cup {<<0, 0, 0>>, <<-1, 2, 2>>, <<1, -1, 0>>, <<1, 0, -1>>, <<0, -1, -1>>}
\* arguments of addRiskFreeRate; the last three pairs are the rejected ones
RateArgs == ({0, 2, 4} \X {0, 2}) \cup {<<-1, 0>>, <<0, -1>>, <<-1, -1>>}
\* arguments of the getters
StrikeQueries == 0..6
MaturityQueries == -1..3
TimeQueries == -1..5

\* the objects of class EuropeanStockOption
InstrumentIds == {1, 2}

\* arguments of the constructor of EuropeanStockOption: notional, strike,
\* maturity, spot price, isCall.  Valid ones at and in the money, and one or
\* more of the four numbers not positive.
OptionArgs ==
    {<<2, 3, 2, 3, TRUE>>, <<2, 3, 2, 3, FALSE>>, <<2, 3, 2, 5, TRUE>>,
     <<0, 3, 2, 3, TRUE>>, <<2, 0, 2, 3, TRUE>>, <<2, 3, 0, 3, FALSE>>,
     <<2, 3, 2, 0, TRUE>>, <<2, -1, 2, 3, FALSE>>, <<-1, 3, -1, 3, TRUE>>,
     <<2, 3, 2, -1, TRUE>>}

\* points of the caller's MarketData while an option uses it: at the
\* option's maturity and strike, with a rate and a volatility of 0 too
OptionRateArgs == {<<2, 2>>, <<2, 0>>}

OptionVolatilityArgs == {<<3, 2, 2>>, <<3, 2, 0>>}

SharedRateArgs == {<<2, 2>>, <<2, 0>>}

SharedVolatilityArgs == {<<3, 2, 2>>}

\* the engine two options share and its clone
SharedEngineIds == {1, 2}

\* points of a MarketData that does not hold the option's strike 3 and
\* maturity 2: a curve at another time, and surfaces with one point, with one
\* value on an axis, with absent corners
SparseRateArgs == {<<0, 2>>}

SparseVolatilityArgs == {<<1, 0, 2>>, <<3, 4, 2>>, <<5, 2, 2>>, <<5, 4, 2>>}

(***************************************************************************)
(* Arithmetic of T.                                                        *)
(***************************************************************************)
Abs(n) == IF n < 0 THEN -n ELSE n

Sign(n) == IF n < 0 THEN -1 ELSE IF n > 0 THEN 1 ELSE 0

RECURSIVE Gcd(_, _)
Gcd(a, b) == IF b = 0 THEN a ELSE Gcd(b, a % b)

\* lowest terms, positive denominator; a zero denominator keeps only the sign
Norm(n, d) ==
    IF d = 0 THEN <<Sign(n), 0>>
    ELSE LET g == Gcd(Abs(n), Abs(d))
         IN  IF d < 0 THEN <<(-n) \div g, (-d) \div g>> ELSE <<n \div g, d \div g>>

NaN == <<0, 0>>

R(n) == <<n, 1>>

FAdd(a, b) ==
    IF a[2] = 0 /\ b[2] = 0
    THEN (IF a[1] = b[1] THEN a ELSE NaN)
    ELSE Norm(a[1] * b[2] + b[1] * a[2], a[2] * b[2])

FNeg(a) == <<-a[1], a[2]>>

FSub(a, b) == FAdd(a, FNeg(b))

FMul(a, b) == Norm(a[1] * b[1], a[2] * b[2])

\* x / 0 is +-inf, 0 / 0 and inf / inf are NaN
FDiv(a, b) == Norm(a[1] * b[2], a[2] * b[1])

(***************************************************************************)
(* What a call returns or throws.                                          *)
(*   InvalidArgument       std::invalid_argument                           *)
(*   EmptyCurve            std::runtime_error("Yield curve is empty")      *)
(*   UninitializedSurface  std::runtime_error("Volatility surface not      *)
(*                         initialized")                                   *)
(*   InsufficientData      std::runtime_error("Insufficient data for       *)
(*                         interpolation")                                 *)
(*   OutOfBounds           std::runtime_error("Strike out of bounds" /     *)
(*                         "Maturity out of bounds"), `at` names the axis  *)
(*   MissingDataPoint      std::runtime_error("Missing volatility point    *)
(*                         at (K=k, T=t)"), `at` holds <<k, t>>            *)
(*   map::at               std::out_of_range thrown by std::map::at        *)
(***************************************************************************)
Ok(v) == [tag |-> "ok", type |-> "none", err |-> "none", val |-> v, at |-> <<>>]

Void == [tag |-> "void", type |-> "none", err |-> "none", val |-> R(0), at |-> <<>>]

Throw(type, err, at) == [tag |-> "throw", type |-> type, err |-> err, val |-> R(0), at |-> at]

(***************************************************************************)
(* std::map and std::vector helpers.                                       *)
(***************************************************************************)
\* variant: std::map::insert, which leaves the value of a key already present
MapAssignKeepOld(m, key, value) ==
    IF key \in DOMAIN m THEN m ELSE [x \in DOMAIN m \cup {key} |-> IF x = key THEN value ELSE m[x]]

\* m[key] = value
MapAssign(m, key, value) ==
    [x \in DOMAIN m \cup {key} |-> IF x = key THEN value ELSE m[x]]

EmptyMap == [x \in {} |-> 0]

\* std::lower_bound on a vector: index of the first element not less than x,
\* Len(s) + 1 standing for end(); the halving search of the library
RECURSIVE LowerBoundFrom(_, _, _, _)
LowerBoundFrom(s, x, first, len) ==
    IF len = 0 THEN first
    ELSE LET half == len \div 2
             mid == first + half
         IN  IF s[mid] < x
             THEN LowerBoundFrom(s, x, mid + 1, len - half - 1)
             ELSE LowerBoundFrom(s, x, first, half)

lower_bound(s, x) == LowerBoundFrom(s, x, 1, Len(s))

\* vector::insert(it, x)
VecInsert(s, i, x) == SubSeq(s, 1, i - 1) \o <<x>> \o SubSeq(s, i, Len(s))

\* the keys of a std::map<T,T> in iteration order
RECURSIVE SortedKeys(_)
SortedKeys(S) ==
    IF S = {} THEN <<>>
    ELSE LET m == CHOOSE x \in S : \A y \in S : x <= y
         IN  <<m>> \o SortedKeys(S \ {m})

\* std::map::upper_bound: index of the first key greater than x, Len + 1 for end()
upper_bound(keys, x) ==
    IF \E i \in 1..Len(keys) : keys[i] > x
    THEN CHOOSE i \in 1..Len(keys) : keys[i] > x /\ \A j \in 1..(i - 1) : ~(keys[j] > x)
    ELSE Len(keys) + 1

(***************************************************************************)
(* addRiskFreeRate, addVolatility.                                         *)
(***************************************************************************)
\* variant: the rate not checked
InvalidRateArgsTimeOnly(time, rate) == time < 0

InvalidRateArgs(time, rate) == time < 0 \/ rate < 0

\* variant: strike < 0 in place of strike <= 0
InvalidVolatilityArgsStrictStrike(strike, maturity, volatility) ==
    strike < 0 \/ maturity < 0 \/ volatility < 0

InvalidVolatilityArgs(strike, maturity, volatility) ==
    strike <= 0 \/ maturity < 0 \/ volatility < 0

\* variant: push_back in place of the sorted insert
InsertIfAbsentAppend(s, x) ==
    IF \E i \in 1..Len(s) : s[i] = x THEN s ELSE Append(s, x)

\* lower_bound, then insert unless the element found equals x
InsertIfAbsent(s, x) ==
    LET it == lower_bound(s, x)
    IN  IF it = Len(s) + 1 \/ s[it] # x THEN VecInsert(s, it, x) ELSE s

\* variant: the point stored before the arguments are checked
addRiskFreeRateStoreFirst(time, rate) ==
    /\ yield_curve_' = MapAssign(yield_curve_, time, rate)
    /\ last' = [op |-> "addRiskFreeRate", args |-> <<time, rate>>,
                res |-> IF InvalidRateArgs(time, rate)
                        THEN Throw("std::invalid_argument", "InvalidArgument", <<>>)
                        ELSE Void,
                fresh |-> time \notin DOMAIN yield_curve_]
    /\ UNCHANGED <<vol_surface_, strikes_, maturities_, instruments, engines, fetcher>>

addRiskFreeRate(time, rate) ==
    IF InvalidRateArgs(time, rate)
    THEN /\ last' = [op |-> "addRiskFreeRate", args |-> <<time, rate>>,
                     res |-> Throw("std::invalid_argument", "InvalidArgument", <<>>),
                     fresh |-> FALSE]
         /\ UNCHANGED <<yield_curve_, vol_surface_, strikes_, maturities_, instruments, engines, fetcher>>
    ELSE /\ yield_curve_' = MapAssign(yield_curve_, time, rate)
         /\ last' = [op |-> "addRiskFreeRate", args |-> <<time, rate>>, res |-> Void,
                     fresh |-> time \notin DOMAIN yield_curve_]
         /\ UNCHANGED <<vol_surface_, strikes_, maturities_, instruments, engines, fetcher>>

addVolatility(strike, maturity, volatility) ==
    IF InvalidVolatilityArgs(strike, maturity, volatility)
    THEN /\ last' = [op |-> "addVolatility", args |-> <<strike, maturity, volatility>>,
                     res |-> Throw("std::invalid_argument", "InvalidArgument", <<>>),
                     fresh |-> FALSE]
         /\ UNCHANGED <<yield_curve_, vol_surface_, strikes_, maturities_, instruments, engines, fetcher>>
    ELSE /\ vol_surface_' = MapAssign(vol_surface_, <<strike, maturity>>, volatility)
         /\ strikes_' = InsertIfAbsent(strikes_, strike)
         /\ maturities_' = InsertIfAbsent(maturities_, maturity)
         /\ last' = [op |-> "addVolatility", args |-> <<strike, maturity, volatility>>,
                     res |-> Void, fresh |-> <<strike, maturity>> \notin DOMAIN vol_surface_]
         /\ UNCHANGED <<yield_curve_, instruments, engines, fetcher>>

(***************************************************************************)
(* getRiskFreeRate.                                                        *)
(***************************************************************************)
\* variant: a curve of one point counts as empty too
CurveEmptyOrSingle(yc) == Cardinality(DOMAIN yc) <= 1

\* yield_curve_.empty()
CurveEmpty(yc) == DOMAIN yc = {}

\* variant: begin() in place of prev(upper) above the range
FlatRateFirst(yc, keys, upper) == yc[keys[1]]

\* the rate returned before the first and at or after the last point
FlatRate(yc, keys, upper) ==
    IF upper = 1 THEN yc[keys[upper]] ELSE yc[keys[upper - 1]]

\* variant: the weight is applied to r1 in place of r1 - r0
LinearRateNoDifference(t0, r0, t1, r1, time) ==
    IF t1 - t0 <= 0 THEN R(r0)
    ELSE LET alpha == FDiv(R(time - t0), R(t1 - t0))
         IN  FAdd(R(r0), FMul(alpha, R(r1)))

\* the interpolation between the bracketing points
LinearRate(t0, r0, t1, r1, time) ==
    \* t1 - t0 < epsilon: on integers, t1 - t0 <= 0
    IF t1 - t0 <= 0 THEN R(r0)
    ELSE LET alpha == FDiv(R(time - t0), R(t1 - t0))
         IN  FAdd(R(r0), FMul(alpha, R(r1 - r0)))

getRiskFreeRateValue(yc, time) ==
    IF CurveEmpty(yc) THEN Throw("std::runtime_error", "EmptyCurve", <<>>)
    ELSE
    LET keys == SortedKeys(DOMAIN yc)
        upper == upper_bound(keys, time)
    IN  IF Len(keys) = 1 THEN Ok(R(yc[keys[1]]))
        ELSE IF upper = 1 \/ upper = Len(keys) + 1 THEN Ok(R(FlatRate(yc, keys, upper)))
        ELSE LET lower == upper - 1
             IN  Ok(LinearRate(keys[lower], yc[keys[lower]],
                               keys[upper], yc[keys[upper]], time))

getRiskFreeRate(time) ==
    /\ last' = [op |-> "getRiskFreeRate", args |-> <<time>>,
                res |-> getRiskFreeRateValue(yield_curve_, time), fresh |-> FALSE]
    /\ UNCHANGED <<yield_curve_, vol_surface_, strikes_, maturities_, instruments, engines, fetcher>>

(***************************************************************************)
(* getVolatility.                                                          *)
(***************************************************************************)
\* std::map::at
MapAt(m, key) ==
    IF key \in DOMAIN m THEN Ok(R(m[key]))
    ELSE Throw("std::out_of_range", "map::at", key)

\* variant: no exact-match shortcut
ExactMatchNever(vs, strike, maturity) == FALSE

\* vol_surface_.find({strike, maturity}) != end()
ExactMatch(vs, strike, maturity) == <<strike, maturity>> \in DOMAIN vs

\* variant: no single-point shortcut
SinglePointNever(ks, ts) == FALSE

SinglePoint(ks, ts) == Len(ks) = 1 /\ Len(ts) = 1

\* variant: && in place of || in the size test
SurfaceCheckBothAxes(ks, ts) ==
    IF Len(ks) = 0 \/ Len(ts) = 0
    THEN Throw("std::runtime_error", "UninitializedSurface", <<>>)
    ELSE IF Len(ks) < 2 /\ Len(ts) < 2
    THEN Throw("std::runtime_error", "InsufficientData", <<>>)
    ELSE Void

\* the two checks of the surface's state; Void when both pass
SurfaceCheck(ks, ts) ==
    IF Len(ks) = 0 \/ Len(ts) = 0
    THEN Throw("std::runtime_error", "UninitializedSurface", <<>>)
    ELSE IF Len(ks) < 2 \/ Len(ts) < 2
    THEN Throw("std::runtime_error", "InsufficientData", <<>>)
    ELSE Void

\* variant: only the lower ends are tested
BoundsCheckLowerOnly(ks, ts, strike, maturity) ==
    IF strike < ks[1]
    THEN Throw("std::runtime_error", "OutOfBounds", <<"Strike">>)
    ELSE IF maturity < ts[1]
    THEN Throw("std::runtime_error", "OutOfBounds", <<"Maturity">>)
    ELSE Void

\* the two range checks; Void when both pass
BoundsCheck(ks, ts, strike, maturity) ==
    IF strike < ks[1] \/ strike > ks[Len(ks)]
    THEN Throw("std::runtime_error", "OutOfBounds", <<"Strike">>)
    ELSE IF maturity < ts[1] \/ maturity > ts[Len(ts)]
    THEN Throw("std::runtime_error", "OutOfBounds", <<"Maturity">>)
    ELSE Void

\* the pair (k0, k1) resp. (t0, t1) around x on a sorted axis
Bracket(s, x) ==
    LET it == lower_bound(s, x)
    IN  IF it = 1 THEN <<s[it], s[it]>>
        ELSE IF it = Len(s) + 1 THEN <<s[it - 1], s[it - 1]>>
        ELSE <<s[it - 1], s[it]>>

\* the lambda get_vol: map::at with std::out_of_range turned into a runtime_error
get_vol(vs, k, t) ==
    IF <<k, t>> \in DOMAIN vs THEN Ok(R(vs[<<k, t>>]))
    ELSE Throw("std::runtime_error", "MissingDataPoint", <<k, t>>)

\* variant: v01 and v10 exchanged
BilinearSwapped(v00, v01, v10, v11, k0, k1, t0, t1, strike, maturity) ==
    LET x_ratio == FDiv(R(strike - k0), R(k1 - k0))
        y_ratio == FDiv(R(maturity - t0), R(t1 - t0))
        one == R(1)
    IN  FAdd(FAdd(FAdd(FMul(FMul(FSub(one, x_ratio), FSub(one, y_ratio)), v00),
                       FMul(FMul(FSub(one, x_ratio), y_ratio), v10)),
                  FMul(FMul(x_ratio, FSub(one, y_ratio)), v01)),
             FMul(FMul(x_ratio, y_ratio), v11))

\* the weights and the weighted sum
Bilinear(v00, v01, v10, v11, k0, k1, t0, t1, strike, maturity) ==
    LET x_ratio == FDiv(R(strike - k0), R(k1 - k0))
        y_ratio == FDiv(R(maturity - t0), R(t1 - t0))
        one == R(1)
    IN  FAdd(FAdd(FAdd(FMul(FMul(FSub(one, x_ratio), FSub(one, y_ratio)), v00),
                       FMul(FMul(FSub(one, x_ratio), y_ratio), v01)),
                  FMul(FMul(x_ratio, FSub(one, y_ratio)), v10)),
             FMul(FMul(x_ratio, y_ratio), v11))

\* from the collapse test to the result
Interpolate(vs, k0, k1, t0, t1, strike, maturity) ==
    IF k0 = k1 /\ t0 = t1 THEN MapAt(vs, <<k0, t0>>)
    ELSE
    LET single_strike == (k0 = k1)
        single_maturity == (t0 = t1)
        v00 == get_vol(vs, k0, t0)
        v01 == IF single_maturity THEN v00 ELSE get_vol(vs, k0, t1)
        v10 == IF single_strike THEN v00 ELSE get_vol(vs, k1, t0)
        v11 == IF single_strike \/ single_maturity THEN v00 ELSE get_vol(vs, k1, t1)
    IN  IF v00.tag = "throw" THEN v00
        ELSE IF v01.tag = "throw" THEN v01
        ELSE IF v10.tag = "throw" THEN v10
        ELSE IF v11.tag = "throw" THEN v11
        ELSE Ok(Bilinear(v00.val, v01.val, v10.val, v11.val,
                         k0, k1, t0, t1, strike, maturity))

getVolatilityValue(vs, ks, ts, strike, maturity) ==
    IF ExactMatch(vs, strike, maturity) THEN Ok(R(vs[<<strike, maturity>>]))
    ELSE IF SinglePoint(ks, ts) THEN MapAt(vs, <<ks[1], ts[1]>>)
    ELSE IF SurfaceCheck(ks, ts).tag = "throw" THEN SurfaceCheck(ks, ts)
    ELSE IF BoundsCheck(ks, ts, strike, maturity).tag = "throw"
    THEN BoundsCheck(ks, ts, strike, maturity)
    ELSE LET k == Bracket(ks, strike)
             t == Bracket(ts, maturity)
         IN  Interpolate(vs, k[1], k[2], t[1], t[2], strike, maturity)

getVolatility(strike, maturity) ==
    /\ last' = [op |-> "getVolatility", args |-> <<strike, maturity>>,
                res |-> getVolatilityValue(vol_surface_, strikes_, maturities_,
                                           strike, maturity),
                fresh |-> FALSE]
    /\ UNCHANGED <<yield_curve_, vol_surface_, strikes_, maturities_, instruments, engines, fetcher>>

(***************************************************************************)
(* Values of the closed-form formulas.                                     *)
(*                                                                         *)
(* std::log, std::exp, std::sqrt and std::erf have no exact value in the   *)
(* fractions above.  A value computed with them is kept as a polynomial    *)
(* with fraction coefficients over atoms, an atom standing for one value   *)
(* of one of these functions: a set of pairs <<monomial, coefficient>>, a  *)
(* monomial being a set of atoms and the coefficients finite and not 0.    *)
(* {} is 0 and SymNaN is the value every operation on a NaN produces.      *)
(* The atoms are N(d1), N(d2), N'(d1) of given (S, K, r, sigma, T),        *)
(* exp(x) of a fraction x # 0, and sqrt(T), 1/sqrt(T) of a T that is no    *)
(* square.  Of erf only erf(-x) = -erf(x) is used, as N(-x) = 1 - N(x).    *)
(***************************************************************************)
SymNaN == {<<{}, NaN>>}

IsSymNaN(p) == <<{}, NaN>> \in p

SymConst(q) ==
    IF q[2] = 0 THEN SymNaN ELSE IF q[1] = 0 THEN {} ELSE {<<{}, q>>}

SymAtom(a) == {<<{a}, R(1)>>}

Monomials(p) == {t[1] : t \in p}

Coefficient(p, m) ==
    IF \E t \in p : t[1] = m THEN (CHOOSE t \in p : t[1] = m)[2] ELSE R(0)

SymAdd(p, q) ==
    IF IsSymNaN(p) \/ IsSymNaN(q) THEN SymNaN
    ELSE {<<m, FAdd(Coefficient(p, m), Coefficient(q, m))>> :
              m \in {n \in Monomials(p) \cup Monomials(q) :
                         FAdd(Coefficient(p, n), Coefficient(q, n)) # R(0)}}

SymScale(c, p) ==
    IF c[2] = 0 \/ IsSymNaN(p) THEN SymNaN
    ELSE IF c[1] = 0 THEN {}
    ELSE {<<t[1], FMul(c, t[2])>> : t \in p}

SymSub(p, q) == SymAdd(p, SymScale(R(-1), q))

\* p * a for an atom a that occurs in no monomial of p
SymTimesAtom(p, a) ==
    IF IsSymNaN(p) THEN SymNaN ELSE {<<t[1] \cup {a}, t[2]>> : t \in p}

\* p * q for p of one term and q with none of its atoms
SymMul(p, q) ==
    IF IsSymNaN(p) \/ IsSymNaN(q) THEN SymNaN
    ELSE {<<t[1] \cup u[1], FMul(t[2], u[2])>> : t \in p, u \in q}

\* std::exp(x)
Exp(x) ==
    IF x[2] = 0 THEN SymNaN
    ELSE IF x[1] = 0 THEN SymConst(R(1))
    ELSE SymAtom(<<"exp", "", 0, 0, x, R(0), 0>>)

IsSquare(n) == \E i \in 0..n : i * i = n

IntSqrt(n) == CHOOSE i \in 0..n : i * i = n

\* p * std::sqrt(T), T > 0
TimesSqrt(p, T) ==
    IF IsSquare(T) THEN SymScale(R(IntSqrt(T)), p)
    ELSE SymTimesAtom(p, <<"sqrt", "", 0, 0, R(0), R(0), T>>)

\* p / std::sqrt(T), T > 0
OverSqrt(p, T) ==
    IF IsSquare(T) THEN SymScale(FDiv(R(1), R(IntSqrt(T))), p)
    ELSE SymTimesAtom(p, <<"1/sqrt", "", 0, 0, R(0), R(0), T>>)

(***************************************************************************)
(* BlackScholesEngine: d1, d2, N, N_prime.                                 *)
(*                                                                         *)
(* For S, K, T > 0, which validate() guarantees of every instrument, and   *)
(* r >= 0.  d1 and d2 are kept by name: [nan, neg, name, of] is NaN, or    *)
(* the value `name` of the arguments `of`, negated when neg.  With         *)
(* sigma = 0 the quotient of d1 is x / 0: +-inf, on which N and N' are     *)
(* defined, unless the numerator ln(S/K) + r*T is 0, which for fractions   *)
(* holds only when S = K and r*T = 0; then d1 is 0/0.                      *)
(***************************************************************************)
d1(S, K, r, sigma, T) ==
    [nan |-> \/ r[2] = 0 \/ sigma[2] = 0
             \/ (sigma[1] = 0 /\ S = K /\ r[1] * T = 0),
     neg |-> FALSE,
     name |-> "d1",
     of |-> <<S, K, r, sigma, T>>]

\* d1(S, K, r, sigma, T) - sigma * sqrt(T)
d2(S, K, r, sigma, T) == [d1(S, K, r, sigma, T) EXCEPT !.name = "d2"]

\* -x
Negated(x) == [x EXCEPT !.neg = ~x.neg]

FunctionAtom(f, x) == <<f, x.name, x.of[1], x.of[2], x.of[3], x.of[4], x.of[5]>>

\* variant: erf taken as an even function, N(-x) = N(x)
NEven(x) ==
    IF x.nan THEN SymNaN ELSE SymAtom(FunctionAtom("N", x))

\* 0.5 * (1 + erf(x / sqrt(2)))
N(x) ==
    IF x.nan THEN SymNaN
    ELSE IF x.neg THEN SymSub(SymConst(R(1)), SymAtom(FunctionAtom("N", x)))
    ELSE SymAtom(FunctionAtom("N", x))

\* (1 / sqrt(2 pi)) * exp(-x^2 / 2), the same for x and -x
N_prime(x) ==
    IF x.nan THEN SymNaN ELSE SymAtom(FunctionAtom("N'", x))

(***************************************************************************)
(* BlackScholesEngine: calculatePrice, calculateGreeks, clone.             *)
(***************************************************************************)
\* Instrument<T>::Parameters
Parameters(notional, strike, maturity, spotPrice, isCall) ==
    [notional_ |-> notional, strike_ |-> strike, maturity_ |-> maturity,
     spotPrice_ |-> spotPrice, isCall_ |-> isCall]

\* a MarketData object as a value
MarketData(yc, vs, ks, ts) ==
    [yield_curve_ |-> yc, vol_surface_ |-> vs, strikes_ |-> ks, maturities_ |-> ts]

\* variant: the volatility read before the rate
ReadErrorVolatilityFirst(r, sigma) == IF sigma.tag = "throw" THEN sigma ELSE r

\* the exception that ends the two reads, the rate first, when one of them throws
ReadError(r, sigma) == IF r.tag = "throw" THEN r ELSE sigma

\* S * N(d1) - K * exp(-r * maturity) * N(d2)
CallPrice(S, K, r, sigma, maturity) ==
    LET discounted == SymScale(R(K), Exp(FNeg(FMul(r, R(maturity)))))
    IN SymSub(SymScale(R(S), N(d1(S, K, r, sigma, maturity))),
              SymMul(discounted, N(d2(S, K, r, sigma, maturity))))

\* K * exp(-r * maturity) * N(-d2) - S * N(-d1)
PutPrice(S, K, r, sigma, maturity) ==
    LET discounted == SymScale(R(K), Exp(FNeg(FMul(r, R(maturity)))))
    IN SymSub(SymMul(discounted, N(Negated(d2(S, K, r, sigma, maturity)))),
              SymScale(R(S), N(Negated(d1(S, K, r, sigma, maturity)))))

calculatePriceValue(params, marketData) ==
    LET S == params.spotPrice_
        K == params.strike_
        maturity == params.maturity_
        r == getRiskFreeRateValue(marketData.yield_curve_, maturity)
        sigma == getVolatilityValue(marketData.vol_surface_, marketData.strikes_,
                                    marketData.maturities_, K, maturity)
    IN IF r.tag = "throw" \/ sigma.tag = "throw" THEN ReadError(r, sigma)
       ELSE IF params.isCall_ THEN Ok(CallPrice(S, K, r.val, sigma.val, maturity))
       ELSE Ok(PutPrice(S, K, r.val, sigma.val, maturity))

\* variant: the put's delta as the other tail, N(-d1)
DeltaOtherTail(d1_val, isCall) ==
    IF isCall THEN N(d1_val) ELSE N(Negated(d1_val))

\* isCall ? N(d1_val) : N(d1_val) - T(1)
Delta(d1_val, isCall) ==
    IF isCall THEN N(d1_val) ELSE SymSub(N(d1_val), SymConst(R(1)))

\* the map calculateGreeks returns
Greeks(S, K, r, sigma, maturity, isCall) ==
    LET d1_val == d1(S, K, r, sigma, maturity)
        d2_val == d2(S, K, r, sigma, maturity)
        discountFactor == Exp(FNeg(FMul(r, R(maturity))))
        n_prime == N_prime(d1_val)
        \* -(S * sigma * n_prime) / (2 * sqrt(maturity))
        decay == OverSqrt(SymScale(FDiv(FMul(R(-S), sigma), R(2)), n_prime), maturity)
        \* r * K * discountFactor
        carry == SymScale(FMul(r, R(K)), discountFactor)
        \* K * maturity * discountFactor * 0.01
        duration == SymScale(FDiv(R(K * maturity), R(100)), discountFactor)
    IN [delta |-> Delta(d1_val, isCall),
        \* n' / 0 is 0/0 or NaN/0
        gamma |-> IF sigma[1] = 0 THEN SymNaN
                  ELSE OverSqrt(SymScale(FDiv(R(1), FMul(R(S), sigma)), n_prime),
                                maturity),
        vega |-> TimesSqrt(SymScale(FDiv(R(S), R(100)), n_prime), maturity),
        theta |-> IF isCall
                  THEN SymScale(FDiv(R(1), R(365)),
                                SymSub(decay, SymMul(carry, N(d2_val))))
                  ELSE SymScale(FDiv(R(1), R(365)),
                                SymAdd(decay, SymMul(carry, N(Negated(d2_val))))),
        rho |-> IF isCall THEN SymMul(duration, N(d2_val))
                ELSE SymScale(R(-1), SymMul(duration, N(Negated(d2_val))))]

calculateGreeksValue(params, marketData) ==
    LET S == params.spotPrice_
        K == params.strike_
        maturity == params.maturity_
        r == getRiskFreeRateValue(marketData.yield_curve_, maturity)
        sigma == getVolatilityValue(marketData.vol_surface_, marketData.strikes_,
                                    marketData.maturities_, K, maturity)
    IN IF r.tag = "throw" \/ sigma.tag = "throw" THEN ReadError(r, sigma)
       ELSE Ok(Greeks(S, K, r.val, sigma.val, maturity, params.isCall_))

\* std::make_shared<BlackScholesEngine<T>>()
BlackScholesEngine ==
    /\ engines' = engines \cup {Cardinality(engines) + 1}
    /\ last' = [op |-> "BlackScholesEngine", args |-> <<>>,
                res |-> Ok(R(Cardinality(engines) + 1)), fresh |-> FALSE]
    /\ UNCHANGED <<yield_curve_, vol_surface_, strikes_, maturities_, instruments, fetcher>>

\* engine e copied into a new object
clone(e) ==
    /\ e \in engines
    /\ engines' = engines \cup {Cardinality(engines) + 1}
    /\ last' = [op |-> "clone", args |-> <<e>>,
                res |-> Ok(R(Cardinality(engines) + 1)), fresh |-> FALSE]
    /\ UNCHANGED <<yield_curve_, vol_surface_, strikes_, maturities_, instruments, fetcher>>

\* variant: the engine leaves its market data in the instrument
calculatePriceStoring(e, i) ==
    /\ e \in engines
    /\ instruments[i].alive
    /\ last' = [op |-> "calculatePrice", args |-> <<i, e>>,
                res |-> calculatePriceValue(
                            instruments[i].params_,
                            MarketData(yield_curve_, vol_surface_, strikes_, maturities_)),
                fresh |-> FALSE]
    /\ instruments' = [instruments EXCEPT ![i].marketData_ =
                           MarketData(yield_curve_, vol_surface_, strikes_, maturities_)]
    /\ UNCHANGED <<yield_curve_, vol_surface_, strikes_, maturities_, engines, fetcher>>

\* engine e on instrument i and the caller's MarketData
calculatePrice(e, i) ==
    /\ e \in engines
    /\ instruments[i].alive
    /\ last' = [op |-> "calculatePrice", args |-> <<i, e>>,
                res |-> calculatePriceValue(
                            instruments[i].params_,
                            MarketData(yield_curve_, vol_surface_, strikes_, maturities_)),
                fresh |-> FALSE]
    /\ UNCHANGED <<yield_curve_, vol_surface_, strikes_, maturities_, instruments, engines, fetcher>>

calculateGreeks(e, i) ==
    /\ e \in engines
    /\ instruments[i].alive
    /\ last' = [op |-> "calculateGreeks", args |-> <<i, e>>,
                res |-> calculateGreeksValue(
                            instruments[i].params_,
                            MarketData(yield_curve_, vol_surface_, strikes_, maturities_)),
                fresh |-> FALSE]
    /\ UNCHANGED <<yield_curve_, vol_surface_, strikes_, maturities_, instruments, engines, fetcher>>

(***************************************************************************)
(* EuropeanStockOption.                                                    *)
(***************************************************************************)
\* variant: a maturity of 0 accepted
validateValueZeroMaturity(params) ==
    IF params.strike_ <= 0
    THEN Throw("std::invalid_argument", "InvalidArgument", <<"strike">>)
    ELSE IF params.maturity_ < 0
    THEN Throw("std::invalid_argument", "InvalidArgument", <<"maturity">>)
    ELSE IF params.spotPrice_ <= 0
    THEN Throw("std::invalid_argument", "InvalidArgument", <<"spotPrice">>)
    ELSE IF params.notional_ <= 0
    THEN Throw("std::invalid_argument", "InvalidArgument", <<"notional">>)
    ELSE Void

validateValue(params) ==
    IF params.strike_ <= 0
    THEN Throw("std::invalid_argument", "InvalidArgument", <<"strike">>)
    ELSE IF params.maturity_ <= 0
    THEN Throw("std::invalid_argument", "InvalidArgument", <<"maturity">>)
    ELSE IF params.spotPrice_ <= 0
    THEN Throw("std::invalid_argument", "InvalidArgument", <<"spotPrice">>)
    ELSE IF params.notional_ <= 0
    THEN Throw("std::invalid_argument", "InvalidArgument", <<"notional">>)
    ELSE Void

\* an object the constructor has not run on
NoOption ==
    [alive |-> FALSE, params_ |-> Parameters(0, 0, 0, 0, FALSE), pricingEngine_ |-> 0,
     marketData_ |-> MarketData(EmptyMap, EmptyMap, <<>>, <<>>)]

\* variant: strike and spot price exchanged in the copy
NewOptionExchanged(params) ==
    [alive |-> TRUE,
     params_ |-> [params EXCEPT !.strike_ = params.spotPrice_,
                                !.spotPrice_ = params.strike_],
     pricingEngine_ |-> 0,
     marketData_ |-> MarketData(EmptyMap, EmptyMap, <<>>, <<>>)]

\* the members after the initializer list: params_(params), the other two default
NewOption(params) ==
    [alive |-> TRUE, params_ |-> params, pricingEngine_ |-> 0,
     marketData_ |-> MarketData(EmptyMap, EmptyMap, <<>>, <<>>)]

\* the constructor, on object i; an exception leaves no object
EuropeanStockOption(i, params) ==
    /\ ~instruments[i].alive
    /\ last' = [op |-> "EuropeanStockOption", args |-> <<i, params>>,
                res |-> validateValue(NewOption(params).params_), fresh |-> FALSE]
    /\ instruments' = IF validateValue(NewOption(params).params_).tag = "throw"
                      THEN instruments
                      ELSE [instruments EXCEPT ![i] = NewOption(params)]
    /\ UNCHANGED <<yield_curve_, vol_surface_, strikes_, maturities_, engines, fetcher>>

validate(i) ==
    /\ instruments[i].alive
    /\ last' = [op |-> "validate", args |-> <<i>>,
                res |-> validateValue(instruments[i].params_), fresh |-> FALSE]
    /\ UNCHANGED <<yield_curve_, vol_surface_, strikes_, maturities_, instruments, engines, fetcher>>

getParameters(i) ==
    /\ instruments[i].alive
    /\ last' = [op |-> "getParameters", args |-> <<i>>,
                res |-> Ok(instruments[i].params_), fresh |-> FALSE]
    /\ UNCHANGED <<yield_curve_, vol_surface_, strikes_, maturities_, instruments, engines, fetcher>>

\* e is 0, a null shared_ptr, or an engine
setPricingEngine(i, e) ==
    /\ instruments[i].alive
    /\ e \in engines \cup {0}
    /\ instruments' = [instruments EXCEPT ![i].pricingEngine_ = e]
    /\ last' = [op |-> "setPricingEngine", args |-> <<i, e>>, res |-> Void,
                fresh |-> FALSE]
    /\ UNCHANGED <<yield_curve_, vol_surface_, strikes_, maturities_, engines, fetcher>>

\* variant: the two maps copied, the two vectors left as they were
CopyAssignMapsOnly(marketData, market) ==
    MarketData(market.yield_curve_, market.vol_surface_,
               marketData.strikes_, marketData.maturities_)

\* marketData_ = market: the copy assignment of MarketData<T>, member by member
CopyAssign(marketData, market) ==
    MarketData(market.yield_curve_, market.vol_surface_,
               market.strikes_, market.maturities_)

\* the caller's MarketData is the argument
updateMarketData(i) ==
    /\ instruments[i].alive
    /\ instruments' =
           [instruments EXCEPT ![i].marketData_ =
                CopyAssign(@, MarketData(yield_curve_, vol_surface_,
                                         strikes_, maturities_))]
    /\ last' = [op |-> "updateMarketData", args |-> <<i>>, res |-> Void,
                fresh |-> FALSE]
    /\ UNCHANGED <<yield_curve_, vol_surface_, strikes_, maturities_, engines, fetcher>>

\* variant: no engine check
EngineNotSetNever(option) == FALSE

\* !pricingEngine_
EngineNotSet(option) == option.pricingEngine_ = 0

\* variant: the unit price
TimesNotionalOmitted(res, notional) == res

\* res * params_.notional_, an exception of the engine passing through
TimesNotional(res, notional) ==
    IF res.tag = "throw" THEN res ELSE Ok(SymScale(R(notional), res.val))

priceValue(option) ==
    IF EngineNotSet(option)
    THEN Throw("std::runtime_error", "EngineNotSet", <<>>)
    ELSE TimesNotional(calculatePriceValue(option.params_, option.marketData_),
                       option.params_.notional_)

greeksValue(option) ==
    IF EngineNotSet(option)
    THEN Throw("std::runtime_error", "EngineNotSet", <<>>)
    ELSE calculateGreeksValue(option.params_, option.marketData_)

price(i) ==
    /\ instruments[i].alive
    /\ last' = [op |-> "price", args |-> <<i>>, res |-> priceValue(instruments[i]),
                fresh |-> FALSE]
    /\ UNCHANGED <<yield_curve_, vol_surface_, strikes_, maturities_, instruments, engines, fetcher>>

greeks(i) ==
    /\ instruments[i].alive
    /\ last' = [op |-> "greeks", args |-> <<i>>, res |-> greeksValue(instruments[i]),
                fresh |-> FALSE]
    /\ UNCHANGED <<yield_curve_, vol_surface_, strikes_, maturities_, instruments, engines, fetcher>>

(***************************************************************************)
(* DataFetcher (src/src/Core/DataFetcher.cpp).                             *)
(*                                                                         *)
(* The functions are static and keep nothing between calls; `fetcher` is   *)
(* the call in progress: `call` the function the caller called, `pc` the   *)
(* next HTTP request of it, `requests` the number of httpGet calls and     *)
(* `responses` the JSON documents received by fetchHistoricalVolatility in *)
(* this call, `result` the StockData being filled, `warnings` the lines    *)
(* fetchStockData wrote to std::cerr, and `res` what the call returned or  *)
(* threw.  What the network and the providers answer is the    *)
(* input of each step.  An answer to httpGet is a failed transfer          *)
(* ("curl"), a body that is no JSON ("garbage") or a JSON document.  A     *)
(* document of the daily series has a "Note" or not, and that a string     *)
(* with or without the words "API call frequency", an "Error Message" or   *)
(* not, and a "Time Series (Daily)" that is absent, has fewer than two     *)
(* entries ("short"), has an entry without a number in "4. close"          *)
(* ("malformed"), has two entries ("pair"), or has more prices; what       *)
(* calculateHistoricalVolatility makes of more prices is one sample value. *)
(***************************************************************************)
NoteKinds == {"none", "API call frequency", "other"}

SeriesKinds == {"absent", "short", "malformed", "pair", "prices"}

NoDocument == [note |-> "none", error |-> FALSE, series |-> "absent"]

DailyDocuments == [note : NoteKinds, error : BOOLEAN, series : SeriesKinds]

DailyAnswers ==
    {[kind |-> "curl", json |-> NoDocument], [kind |-> "garbage", json |-> NoDocument]}
        \cup {[kind |-> "json", json |-> d] : d \in DailyDocuments}

\* answers to the quote request: no "Global Quote", an empty one, one without
\* a string in "05. price", one whose string is no number, and a price
QuoteAnswers == {"curl", "garbage", "missing", "empty", "noprice", "badprice", "price"}

\* the API key of the quote provider is configured or not
KeyAnswers == {"key", "nokey"}

\* answers to fetchRiskFreeRate: no key of the rate provider, then as above;
\* no "observations", an empty list, the value ".", a value that is no
\* string, a string that is no number, and a percentage
RateAnswers ==
    {"nokey", "curl", "garbage", "missing", "empty", "dot", "novalue", "badvalue",
     "value"}

\* the numbers in the documents: the price, the percentage, and the value
\* calculateHistoricalVolatility computes from the prices
SamplePrice == R(3)

SamplePercent == R(4)

SampleVolatility == FDiv(R(1), R(4))

\* 0.30
DefaultVolatility == FDiv(R(3), R(10))

\* 0.05
DefaultRate == FDiv(R(1), R(20))

\* StockData result; no field assigned yet
NoStockData ==
    [spotPrice |-> [set |-> FALSE, val |-> R(0)],
     volatility |-> [set |-> FALSE, val |-> R(0)],
     riskFreeRate |-> [set |-> FALSE, val |-> R(0)]]

Assigned(v) == [set |-> TRUE, val |-> v]

IdleFetcher ==
    [call |-> "none", pc |-> "idle", requests |-> 0, responses |-> <<>>,
     result |-> NoStockData, warnings |-> <<>>, res |-> Void]

\* httpGet and nlohmann::json::parse: the document, or the exception
Fetched(answer) ==
    IF answer.kind = "curl" THEN Throw("std::runtime_error", "CurlFailed", <<>>)
    ELSE IF answer.kind = "garbage" THEN Throw("nlohmann::json::parse_error", "Parse", <<>>)
    ELSE Ok(answer.json)

\* data.contains("Note") || data.contains("Error Message")
NoteOrError(data) == data.note # "none" \/ data.error

\* variant: a retry on any Note or Error Message
RateLimitedAny(data) == NoteOrError(data)

\* the condition of the retry, within the test above
RateLimited(data) == NoteOrError(data) /\ data.note = "API call frequency"

\* calculateHistoricalVolatility on the closing prices: with two prices
\* there is one return, and the variance is 0 / 0
calculateHistoricalVolatility(series) ==
    IF series = "short"
    THEN Throw("std::runtime_error", "NotEnoughPriceData", <<>>)
    ELSE IF series = "pair" THEN Ok(NaN)
    ELSE Ok(SampleVolatility)

\* from the second test of Note and Error Message to the return
VolatilityOf(data) ==
    IF NoteOrError(data) THEN Ok(DefaultVolatility)
    ELSE IF data.series = "absent"
    THEN Throw("std::runtime_error", "InvalidResponseFormat", <<>>)
    ELSE IF data.series = "malformed"
    THEN Throw("nlohmann::json::type_error", "Close", <<>>)
    ELSE calculateHistoricalVolatility(data.series)

\* fetchRiskFreeRate, on the answers of ConfigManager and of the provider
fetchRiskFreeRateValue(answer) ==
    IF answer = "nokey" THEN Throw("std::runtime_error", "ApiKeyNotFound", <<"fred">>)
    ELSE IF answer = "curl" THEN Throw("std::runtime_error", "CurlFailed", <<>>)
    ELSE IF answer = "garbage" THEN Throw("nlohmann::json::parse_error", "Parse", <<>>)
    ELSE IF answer \in {"missing", "empty", "dot"} THEN Ok(DefaultRate)
    ELSE IF answer = "novalue" THEN Throw("nlohmann::json::type_error", "Value", <<>>)
    ELSE IF answer = "badvalue" THEN Throw("std::invalid_argument", "stod", <<>>)
    ELSE Ok(FDiv(SamplePercent, R(100)))

\* the quote request of fetchStockData, to the assignment of spotPrice
QuoteOf(answer) ==
    IF answer = "curl" THEN Throw("std::runtime_error", "CurlFailed", <<>>)
    ELSE IF answer = "garbage" THEN Throw("nlohmann::json::parse_error", "Parse", <<>>)
    ELSE IF answer \in {"missing", "empty"}
    THEN Throw("std::runtime_error", "FetchFailed", <<>>)
    ELSE IF answer = "noprice" THEN Throw("nlohmann::json::type_error", "Price", <<>>)
    ELSE IF answer = "badprice" THEN Throw("std::invalid_argument", "stod", <<>>)
    ELSE Ok(SamplePrice)

\* variant: the exception of the volatility leaves fetchStockData
VolatilityUncaught(res) == [res |-> res, warnings |-> <<>>]

\* try { ... } catch (const std::exception& e) { std::cerr << ...;
\* result.volatility = 0.30; }
VolatilityCaught(res) ==
    IF res.tag = "throw"
    THEN [res |-> Ok(DefaultVolatility),
          warnings |-> <<<<"Could not calculate volatility", res.err>>>>]
    ELSE [res |-> res, warnings |-> <<>>]

\* try { ... } catch (const std::exception& e) { std::cerr << ...;
\* result.riskFreeRate = 0.05; }
RateCaught(res) ==
    IF res.tag = "throw"
    THEN [res |-> Ok(DefaultRate),
          warnings |-> <<<<"Could not fetch risk-free rate", res.err>>>>]
    ELSE [res |-> res, warnings |-> <<>>]

\* fetchHistoricalVolatility ends with res: it is the caller's call, or the
\* try block of fetchStockData
VolatilityEnds(requests, responses, res) ==
    IF fetcher.call = "fetchHistoricalVolatility"
    THEN fetcher' = [fetcher EXCEPT !.pc = "done", !.requests = requests,
                                    !.responses = responses, !.res = res]
    ELSE IF VolatilityCaught(res).res.tag = "throw"
    THEN fetcher' = [fetcher EXCEPT !.pc = "done", !.requests = requests,
                                    !.responses = responses,
                                    !.res = VolatilityCaught(res).res]
    ELSE fetcher' = [fetcher EXCEPT !.pc = "rate", !.requests = requests,
                                    !.responses = responses,
                                    !.warnings = @ \o VolatilityCaught(res).warnings,
                                    !.result.volatility =
                                        Assigned(VolatilityCaught(res).res.val)]

\* the caller calls fetchHistoricalVolatility
fetchHistoricalVolatility ==
    /\ fetcher.pc = "idle"
    /\ fetcher' = [IdleFetcher EXCEPT !.call = "fetchHistoricalVolatility",
                                      !.pc = "request"]
    /\ UNCHANGED <<yield_curve_, vol_surface_, strikes_, maturities_, last,
                   instruments, engines>>

\* the first httpGet, and on to the retry or to the end
volatilityRequest(answer) ==
    /\ fetcher.pc = "request"
    /\ IF Fetched(answer).tag = "throw"
       THEN VolatilityEnds(fetcher.requests + 1, fetcher.responses, Fetched(answer))
       ELSE IF RateLimited(answer.json)
       THEN fetcher' = [fetcher EXCEPT !.pc = "retry",
                                       !.requests = fetcher.requests + 1,
                                       !.responses = <<answer.json>>]
       ELSE VolatilityEnds(fetcher.requests + 1, <<answer.json>>,
                           VolatilityOf(answer.json))
    /\ UNCHANGED <<yield_curve_, vol_surface_, strikes_, maturities_, last,
                   instruments, engines>>

\* after the sleep: the second httpGet, and on to the end
volatilityRetry(answer) ==
    /\ fetcher.pc = "retry"
    /\ IF Fetched(answer).tag = "throw"
       THEN VolatilityEnds(fetcher.requests + 1, fetcher.responses, Fetched(answer))
       ELSE VolatilityEnds(fetcher.requests + 1,
                           Append(fetcher.responses, answer.json),
                           VolatilityOf(answer.json))
    /\ UNCHANGED <<yield_curve_, vol_surface_, strikes_, maturities_, last,
                   instruments, engines>>

\* the caller calls fetchStockData: getApiKey
fetchStockData(answer) ==
    /\ fetcher.pc = "idle"
    /\ fetcher' = IF answer = "nokey"
                  THEN [IdleFetcher EXCEPT
                            !.call = "fetchStockData", !.pc = "done",
                            !.res = Throw("std::runtime_error", "ApiKeyNotFound",
                                          <<"alpha_vantage">>)]
                  ELSE [IdleFetcher EXCEPT !.call = "fetchStockData", !.pc = "quote"]
    /\ UNCHANGED <<yield_curve_, vol_surface_, strikes_, maturities_, last,
                   instruments, engines>>

\* the quote request and the assignment of spotPrice
quoteRequest(answer) ==
    /\ fetcher.pc = "quote"
    /\ fetcher' = IF QuoteOf(answer).tag = "throw"
                  THEN [fetcher EXCEPT !.pc = "done", !.res = QuoteOf(answer)]
                  ELSE [fetcher EXCEPT !.pc = "request",
                                       !.result.spotPrice = Assigned(QuoteOf(answer).val)]
    /\ UNCHANGED <<yield_curve_, vol_surface_, strikes_, maturities_, last,
                   instruments, engines>>

\* the try block of fetchRiskFreeRate, and return result
rateRequest(answer) ==
    /\ fetcher.pc = "rate"
    /\ LET caught == RateCaught(fetchRiskFreeRateValue(answer))
           result == [fetcher.result EXCEPT !.riskFreeRate = Assigned(caught.res.val)]
       IN  fetcher' = [fetcher EXCEPT !.pc = "done",
                                      !.warnings = @ \o caught.warnings,
                                      !.result = result,
                                      !.res = Ok(result)]
    /\ UNCHANGED <<yield_curve_, vol_surface_, strikes_, maturities_, last,
                   instruments, engines>>

\* the call has returned or thrown; the caller goes on
fetcherReturns ==
    /\ fetcher.pc = "done"
    /\ fetcher' = IdleFetcher
    /\ UNCHANGED <<yield_curve_, vol_surface_, strikes_, maturities_, last,
                   instruments, engines>>

(***************************************************************************)
(* The object after construction, and its calls in any order.              *)
(***************************************************************************)
Init ==
    /\ yield_curve_ = EmptyMap
    /\ vol_surface_ = EmptyMap
    /\ strikes_ = <<>>
    /\ maturities_ = <<>>
    /\ last = [op |-> "construct", args |-> <<>>, res |-> Void, fresh |-> FALSE]
    /\ instruments = [i \in InstrumentIds |-> NoOption]
    /\ engines = {}
    /\ fetcher = IdleFetcher

\* the calls that keep the object within n points
RateCalls(n) ==
    {a \in RateArgs : \/ InvalidRateArgs(a[1], a[2])
                      \/ a[1] \in DOMAIN yield_curve_
                      \/ Cardinality(DOMAIN yield_curve_) + Cardinality(DOMAIN vol_surface_) < n}

VolatilityCalls(n) ==
    {a \in VolatilityArgs :
        \/ InvalidVolatilityArgs(a[1], a[2], a[3])
        \/ <<a[1], a[2]>> \in DOMAIN vol_surface_
        \/ Cardinality(DOMAIN yield_curve_) + Cardinality(DOMAIN vol_surface_) < n}

Next ==
    \/ \E a \in RateCalls(MaxPoints) : addRiskFreeRate(a[1], a[2])
    \/ \E a \in VolatilityCalls(MaxPoints) : addVolatility(a[1], a[2], a[3])
    \/ \E time \in TimeQueries : getRiskFreeRate(time)
    \/ \E strike \in StrikeQueries, maturity \in MaturityQueries :
           getVolatility(strike, maturity)

\* an object on which only the surface is used
NextSurface ==
    \/ \E a \in VolatilityCalls(MaxSurfacePoints) : addVolatility(a[1], a[2], a[3])
    \/ \E strike \in StrikeQueries, maturity \in MaturityQueries :
           getVolatility(strike, maturity)

\* an object on which only the yield curve is used
NextCurve ==
    \/ \E a \in RateCalls(MaxCurvePoints) : addRiskFreeRate(a[1], a[2])
    \/ \E time \in TimeQueries : getRiskFreeRate(time)

\* an option, engines and the caller's MarketData
NextOption ==
    \/ \E a \in OptionRateArgs : addRiskFreeRate(a[1], a[2])
    \/ \E a \in OptionVolatilityArgs : addVolatility(a[1], a[2], a[3])
    \/ Cardinality(engines) < MaxEngines /\ BlackScholesEngine
    \/ \E e \in 1..MaxEngines : Cardinality(engines) < MaxEngines /\ clone(e)
    \/ \E a \in OptionArgs : EuropeanStockOption(1, Parameters(a[1], a[2], a[3], a[4], a[5]))
    \/ \E e \in 0..MaxEngines : setPricingEngine(1, e)
    \/ updateMarketData(1)
    \/ validate(1)
    \/ getParameters(1)
    \/ price(1)
    \/ greeks(1)
    \/ \E e \in 1..MaxEngines : calculatePrice(e, 1)
    \/ \E e \in 1..MaxEngines : calculateGreeks(e, 1)

\* a call and a put, engines shared or cloned
NextShared ==
    \/ \E a \in SharedRateArgs : addRiskFreeRate(a[1], a[2])
    \/ \E a \in SharedVolatilityArgs : addVolatility(a[1], a[2], a[3])
    \/ Cardinality(engines) < Cardinality(SharedEngineIds) /\ BlackScholesEngine
    \/ \E e \in SharedEngineIds : Cardinality(engines) < Cardinality(SharedEngineIds) /\ clone(e)
    \/ \E i \in InstrumentIds :
           EuropeanStockOption(i, Parameters(2, 3, 2, 3, i = 1))
    \/ \E i \in InstrumentIds, e \in SharedEngineIds : setPricingEngine(i, e)
    \/ \E i \in InstrumentIds : updateMarketData(i)
    \/ \E i \in InstrumentIds : price(i)
    \/ \E i \in InstrumentIds : greeks(i)
    \/ \E i \in InstrumentIds, e \in SharedEngineIds : calculatePrice(e, i)
    \/ \E i \in InstrumentIds, e \in SharedEngineIds : calculateGreeks(e, i)

\* an option with an engine on sparse market data
NextSparse ==
    \/ \E a \in SparseRateArgs : addRiskFreeRate(a[1], a[2])
    \/ \E a \in SparseVolatilityArgs : addVolatility(a[1], a[2], a[3])
    \/ engines = {} /\ BlackScholesEngine
    \/ EuropeanStockOption(1, Parameters(2, 3, 2, 3, TRUE))
    \/ setPricingEngine(1, 1)
    \/ updateMarketData(1)
    \/ price(1)
    \/ greeks(1)

\* calls of DataFetcher, one at a time, on any answers
NextFetcher ==
    \/ fetchHistoricalVolatility
    \/ \E answer \in DailyAnswers : volatilityRequest(answer)
    \/ \E answer \in DailyAnswers : volatilityRetry(answer)
    \/ \E answer \in KeyAnswers : fetchStockData(answer)
    \/ \E answer \in QuoteAnswers : quoteRequest(answer)
    \/ \E answer \in RateAnswers : rateRequest(answer)
    \/ fetcherReturns

Spec == Init /\ [][Next]_vars

SpecOption == Init /\ [][NextOption]_vars

SpecShared == Init /\ [][NextShared]_vars

SpecSparse == Init /\ [][NextSparse]_vars

SpecFetcher == Init /\ [][NextFetcher]_vars

SpecSurface == Init /\ [][NextSurface]_vars

SpecCurve == Init /\ [][NextCurve]_vars

(***************************************************************************)
(* Vocabulary of the properties.                                           *)
(***************************************************************************)
StrikeSet == {key[1] : key \in DOMAIN vol_surface_}

MaturitySet == {key[2] : key \in DOMAIN vol_surface_}

SetMin(S) == CHOOSE x \in S : \A y \in S : x <= y

SetMax(S) == CHOOSE x \in S : \A y \in S : x >= y

Elements(s) == {s[i] : i \in 1..Len(s)}

StrictlyAscending(s) == \A i \in 1..(Len(s) - 1) : s[i] < s[i + 1]

\* a and b are recorded values of the axis S with none between them
Adjacent(S, a, b) == a \in S /\ b \in S /\ a < b /\ ~(\E c \in S : a < c /\ c < b)

IsGetVolatility == last.op = "getVolatility"

Stored(k, t) == <<k, t>> \in DOMAIN vol_surface_

SurfaceErrors == {"UninitializedSurface", "InsufficientData", "OutOfBounds", "MissingDataPoint"}

\* the query passed the checks of the surface's state and of the range
ReachedBracketing ==
    /\ IsGetVolatility
    /\ ~Stored(last.args[1], last.args[2])
    /\ Len(strikes_) >= 2 /\ Len(maturities_) >= 2
    /\ last.args[1] >= strikes_[1] /\ last.args[1] <= strikes_[Len(strikes_)]
    /\ last.args[2] >= maturities_[1] /\ last.args[2] <= maturities_[Len(maturities_)]

\* v0 + (q - a)/(b - a) * (v1 - v0) as a fraction
Linear(a, b, v0, v1, q) == Norm(v0 * (b - a) + (q - a) * (v1 - v0), b - a)

(***************************************************************************)
(* C1.  When exactly one axis collapses (k0 = k1 with t0 < t1, or t0 = t1  *)
(* with k0 < k1) and the needed corners are stored, getVolatility returns  *)
(* the linear interpolation along the other axis between the two stored    *)
(* values on the collapsed line.                                           *)
(***************************************************************************)
C1_OneAxisCollapseIsLinear ==
    ReachedBracketing =>
        LET k == Bracket(strikes_, last.args[1])
            t == Bracket(maturities_, last.args[2])
        IN  /\ (k[1] = k[2] /\ t[1] < t[2] /\ Stored(k[1], t[1]) /\ Stored(k[1], t[2]))
                => last.res = Ok(Linear(t[1], t[2], vol_surface_[<<k[1], t[1]>>],
                                        vol_surface_[<<k[1], t[2]>>], last.args[2]))
            /\ (t[1] = t[2] /\ k[1] < k[2] /\ Stored(k[1], t[1]) /\ Stored(k[2], t[1]))
                => last.res = Ok(Linear(k[1], k[2], vol_surface_[<<k[1], t[1]>>],
                                        vol_surface_[<<k[2], t[1]>>], last.args[1]))

(***************************************************************************)
(* C2.  After any sequence of addVolatility and addRiskFreeRate calls the  *)
(* strike list is the set of distinct strikes of the surface's keys and    *)
(* the maturity list the set of their distinct maturities, each strictly   *)
(* ascending (hence without duplicates).                                   *)
(***************************************************************************)
C2_AxisListsAreProjections ==
    /\ StrictlyAscending(strikes_)
    /\ StrictlyAscending(maturities_)
    /\ Elements(strikes_) = StrikeSet
    /\ Elements(maturities_) = MaturitySet

\* a strike inserted between two recorded ones, on an object whose curve is in use
C2_Witness ==
    /\ last.op = "addVolatility" /\ last.fresh
    /\ last.args[1] = 3
    /\ strikes_ = <<1, 3, 5>>
    /\ Len(maturities_) = 2

(***************************************************************************)
(* C3.  For a query strictly inside a cell of adjacent recorded strikes    *)
(* k0 < strike < k1 and adjacent recorded maturities t0 < maturity < t1    *)
(* whose four corners are stored, getVolatility returns                    *)
(* (1-x)(1-y) v00 + (1-x) y v01 + x (1-y) v10 + x y v11; at the centre of  *)
(* the cell that is the mean of the four corners.                          *)
(***************************************************************************)
\* the weighted sum over the common denominator (k1-k0)(t1-t0)
BilinearValue(k0, k1, t0, t1, q) ==
    Norm((k1 - q[1]) * (t1 - q[2]) * vol_surface_[<<k0, t0>>]
           + (k1 - q[1]) * (q[2] - t0) * vol_surface_[<<k0, t1>>]
           + (q[1] - k0) * (t1 - q[2]) * vol_surface_[<<k1, t0>>]
           + (q[1] - k0) * (q[2] - t0) * vol_surface_[<<k1, t1>>],
         (k1 - k0) * (t1 - t0))

InsideCell(k0, k1, t0, t1) ==
    /\ IsGetVolatility
    /\ Adjacent(StrikeSet, k0, k1) /\ Adjacent(MaturitySet, t0, t1)
    /\ k0 < last.args[1] /\ last.args[1] < k1
    /\ t0 < last.args[2] /\ last.args[2] < t1
    /\ Stored(k0, t0) /\ Stored(k0, t1) /\ Stored(k1, t0) /\ Stored(k1, t1)

C3_BilinearInsideCell ==
    \A k0 \in StrikeSet, k1 \in StrikeSet, t0 \in MaturitySet, t1 \in MaturitySet :
        InsideCell(k0, k1, t0, t1) =>
            /\ last.res = Ok(BilinearValue(k0, k1, t0, t1, last.args))
            /\ (2 * last.args[1] = k0 + k1 /\ 2 * last.args[2] = t0 + t1)
                => last.res = Ok(Norm(vol_surface_[<<k0, t0>>] + vol_surface_[<<k0, t1>>]
                                        + vol_surface_[<<k1, t0>>] + vol_surface_[<<k1, t1>>], 4))

\* the centre of a cell whose corners are not all equal
C3_Witness ==
    /\ InsideCell(3, 5, 0, 2)
    /\ last.args = <<4, 1>>
    /\ vol_surface_[<<3, 0>>] = 2 /\ vol_surface_[<<5, 2>>] = 0
    /\ vol_surface_[<<3, 2>>] = 0 /\ vol_surface_[<<5, 0>>] = 0
    /\ last.res = Ok(<<1, 2>>)

(***************************************************************************)
(* C4.  Whenever getVolatility needs a grid value at a recorded (strike,   *)
(* maturity) combination that is absent from the surface, the call fails   *)
(* with MissingDataPoint naming the coordinates; and every failure of      *)
(* getVolatility is one of UninitializedSurface, InsufficientData,         *)
(* OutOfBounds, MissingDataPoint.                                          *)
(***************************************************************************)
\* the first corner, in the order the code reads them, that is not stored
FirstAbsentCorner(k, t) ==
    IF ~Stored(k[1], t[1]) THEN <<k[1], t[1]>>
    ELSE IF t[1] # t[2] /\ ~Stored(k[1], t[2]) THEN <<k[1], t[2]>>
    ELSE IF k[1] # k[2] /\ ~Stored(k[2], t[1]) THEN <<k[2], t[1]>>
    ELSE IF k[1] # k[2] /\ t[1] # t[2] /\ ~Stored(k[2], t[2]) THEN <<k[2], t[2]>>
    ELSE <<>>

C4_OnlySurfaceErrors ==
    /\ (IsGetVolatility /\ last.res.tag = "throw") => last.res.err \in SurfaceErrors
    /\ ReachedBracketing =>
           LET absent == FirstAbsentCorner(Bracket(strikes_, last.args[1]),
                                           Bracket(maturities_, last.args[2]))
           IN  absent # <<>> =>
                   /\ last.res.tag = "throw"
                   /\ last.res.err = "MissingDataPoint"
                   /\ last.res.at = absent

(***************************************************************************)
(* C5.  On a surface with at least two distinct strikes and at least two   *)
(* distinct maturities, a query whose strike or maturity lies outside the  *)
(* recorded range of its axis fails with OutOfBounds, and a query inside   *)
(* both ranges never fails with OutOfBounds.                               *)
(***************************************************************************)
OutsideRange ==
    \/ last.args[1] < SetMin(StrikeSet) \/ last.args[1] > SetMax(StrikeSet)
    \/ last.args[2] < SetMin(MaturitySet) \/ last.args[2] > SetMax(MaturitySet)

FailedWith(err) == last.res.tag = "throw" /\ last.res.err = err

C5_OutOfBoundsIffOutside ==
    (IsGetVolatility /\ Cardinality(StrikeSet) >= 2 /\ Cardinality(MaturitySet) >= 2)
        => (OutsideRange <=> FailedWith("OutOfBounds"))

\* only the maturity is outside, above the largest recorded one
C5_Witness ==
    /\ IsGetVolatility
    /\ Cardinality(StrikeSet) >= 2 /\ Cardinality(MaturitySet) >= 2
    /\ last.args[1] > SetMin(StrikeSet) /\ last.args[1] < SetMax(StrikeSet)
    /\ last.args[2] > SetMax(MaturitySet)
    /\ FailedWith("OutOfBounds")

(***************************************************************************)
(* C6.  For a query that is no stored key: on an empty surface it fails    *)
(* with UninitializedSurface; on a non-empty surface with fewer than two   *)
(* distinct values on an axis, other than the one-strike-one-maturity      *)
(* surface, it fails with InsufficientData whatever the coordinates are,   *)
(* inside or outside the recorded range.                                   *)
(***************************************************************************)
ThinSurface ==
    /\ DOMAIN vol_surface_ # {}
    /\ Cardinality(StrikeSet) < 2 \/ Cardinality(MaturitySet) < 2
    /\ ~(Cardinality(StrikeSet) = 1 /\ Cardinality(MaturitySet) = 1)

C6_SurfaceStateErrors ==
    (IsGetVolatility /\ ~Stored(last.args[1], last.args[2])) =>
        /\ DOMAIN vol_surface_ = {} => FailedWith("UninitializedSurface")
        /\ ThinSurface => FailedWith("InsufficientData")

\* one strike, two maturities, and a query outside the recorded range
C6_Witness ==
    /\ IsGetVolatility
    /\ ThinSurface
    /\ OutsideRange
    /\ FailedWith("InsufficientData")

(***************************************************************************)
(* C7.  getVolatility(strike, maturity) returns the stored value whenever  *)
(* (strike, maturity) is a key of the surface, whatever the shape of the   *)
(* surface.                                                                *)
(***************************************************************************)
C7_ExactKeyReturnsStored ==
    (IsGetVolatility /\ Stored(last.args[1], last.args[2]))
        => last.res = Ok(R(vol_surface_[<<last.args[1], last.args[2]>>]))

\* a key on the boundary of the range of a sparse grid
C7_Witness ==
    /\ IsGetVolatility
    /\ Stored(last.args[1], last.args[2])
    /\ last.args[1] = SetMin(StrikeSet) /\ last.args[2] = SetMax(MaturitySet)
    /\ Cardinality(StrikeSet) >= 2 /\ Cardinality(MaturitySet) >= 2
    /\ Cardinality(DOMAIN vol_surface_) < Cardinality(StrikeSet) * Cardinality(MaturitySet)
    /\ last.res.tag = "ok"

(***************************************************************************)
(* C8.  When the surface holds exactly one distinct strike and one         *)
(* distinct maturity, getVolatility returns that sole stored value for     *)
(* every query and never fails.                                            *)
(***************************************************************************)
C8_SinglePointIsFlat ==
    (IsGetVolatility /\ Cardinality(StrikeSet) = 1 /\ Cardinality(MaturitySet) = 1)
        => \A key \in DOMAIN vol_surface_ : last.res = Ok(R(vol_surface_[key]))

\* a query outside the stored point on both axes
C8_Witness ==
    /\ IsGetVolatility
    /\ Cardinality(StrikeSet) = 1 /\ Cardinality(MaturitySet) = 1
    /\ last.args[1] > SetMax(StrikeSet) /\ last.args[2] < SetMin(MaturitySet)
    /\ last.res.tag = "ok"

(***************************************************************************)
(* C9.  addRiskFreeRate(time, rate) fails with InvalidArgument exactly     *)
(* when time < 0 or rate < 0, addVolatility(strike, maturity, vol) exactly *)
(* when strike <= 0 or maturity < 0 or vol < 0; every other input,         *)
(* zeros included, is accepted and stored.                                 *)
(***************************************************************************)
C9_AddValidation ==
    /\ last.op = "addRiskFreeRate" =>
           IF last.args[1] < 0 \/ last.args[2] < 0
           THEN FailedWith("InvalidArgument") /\ last.res.type = "std::invalid_argument"
           ELSE /\ last.res = Void
                /\ last.args[1] \in DOMAIN yield_curve_
                /\ yield_curve_[last.args[1]] = last.args[2]
    /\ last.op = "addVolatility" =>
           IF last.args[1] <= 0 \/ last.args[2] < 0 \/ last.args[3] < 0
           THEN FailedWith("InvalidArgument") /\ last.res.type = "std::invalid_argument"
           ELSE /\ last.res = Void
                /\ Stored(last.args[1], last.args[2])
                /\ vol_surface_[<<last.args[1], last.args[2]>>] = last.args[3]

\* maturity 0 and volatility 0 accepted, on an object that holds the curve point (0, 0)
C9_Witness ==
    /\ last.op = "addVolatility"
    /\ last.args[2] = 0 /\ last.args[3] = 0
    /\ last.res = Void
    /\ 0 \in DOMAIN yield_curve_ /\ yield_curve_[0] = 0

(***************************************************************************)
(* C10.  Adding a value at a key that is already present replaces the      *)
(* stored value: a query at that key then returns the value just added,    *)
(* and the number of curve points, surface points, recorded strikes and    *)
(* recorded maturities is unchanged by the re-insertion.                   *)
(***************************************************************************)
SameSizes ==
    /\ Cardinality(DOMAIN yield_curve_') = Cardinality(DOMAIN yield_curve_)
    /\ Cardinality(DOMAIN vol_surface_') = Cardinality(DOMAIN vol_surface_)
    /\ Len(strikes_') = Len(strikes_)
    /\ Len(maturities_') = Len(maturities_)

ReinsertOverwrites ==
    /\ (last'.op = "addRiskFreeRate" /\ last'.res = Void
            /\ last'.args[1] \in DOMAIN yield_curve_)
        => /\ getRiskFreeRateValue(yield_curve_', last'.args[1]) = Ok(R(last'.args[2]))
           /\ SameSizes
    /\ (last'.op = "addVolatility" /\ last'.res = Void
            /\ <<last'.args[1], last'.args[2]>> \in DOMAIN vol_surface_)
        => /\ getVolatilityValue(vol_surface_', strikes_', maturities_',
                                 last'.args[1], last'.args[2]) = Ok(R(last'.args[3]))
           /\ SameSizes

C10_ReinsertOverwrites == [][ReinsertOverwrites]_vars

\* a surface key written twice, standing with the value of the second write
C10_Witness ==
    /\ last.op = "addVolatility" /\ last.res = Void /\ ~last.fresh
    /\ vol_surface_[<<last.args[1], last.args[2]>>] = last.args[3]
    /\ DOMAIN yield_curve_ # {}

(***************************************************************************)
(* C11.  getRiskFreeRate(time) fails with EmptyCurve exactly when the      *)
(* yield curve holds no point; on a non-empty curve it returns a value     *)
(* for every query time.                                                   *)
(***************************************************************************)
IsGetRiskFreeRate == last.op = "getRiskFreeRate"

C11_EmptyCurveIffNoPoint ==
    IsGetRiskFreeRate =>
        IF DOMAIN yield_curve_ = {}
        THEN FailedWith("EmptyCurve") /\ last.res.type = "std::runtime_error"
        ELSE last.res.tag = "ok" /\ last.res.val[2] > 0

\* a query below the only point of a curve
C11_Witness ==
    /\ IsGetRiskFreeRate
    /\ Cardinality(DOMAIN yield_curve_) = 1
    /\ last.args[1] < SetMin(DOMAIN yield_curve_)
    /\ last.res.tag = "ok"

(***************************************************************************)
(* C12.  Flat extrapolation: with exactly one stored point (t, r) every    *)
(* query returns r; with two or more points a query before the smallest    *)
(* stored time returns the smallest point's rate and a query at or after   *)
(* the largest stored time returns the largest point's rate.               *)
(***************************************************************************)
C12_FlatExtrapolation ==
    (IsGetRiskFreeRate /\ DOMAIN yield_curve_ # {}) =>
        LET first == SetMin(DOMAIN yield_curve_)
            final == SetMax(DOMAIN yield_curve_)
        IN  /\ first = final => last.res = Ok(R(yield_curve_[first]))
            /\ last.args[1] < first => last.res = Ok(R(yield_curve_[first]))
            /\ last.args[1] >= final => last.res = Ok(R(yield_curve_[final]))

\* a query above the last of three points whose rates differ
C12_Witness ==
    /\ IsGetRiskFreeRate
    /\ Cardinality(DOMAIN yield_curve_) = 3
    /\ last.args[1] > SetMax(DOMAIN yield_curve_)
    /\ yield_curve_[SetMax(DOMAIN yield_curve_)] # yield_curve_[SetMin(DOMAIN yield_curve_)]
    /\ last.res = Ok(R(yield_curve_[SetMax(DOMAIN yield_curve_)]))

Options == {i \in InstrumentIds : instruments[i].alive}

AllPositive(params) ==
    /\ params.strike_ > 0
    /\ params.maturity_ > 0
    /\ params.spotPrice_ > 0
    /\ params.notional_ > 0

InvalidArgumentThrown(res) ==
    /\ res.tag = "throw"
    /\ res.type = "std::invalid_argument"
    /\ res.err = "InvalidArgument"

\* C14: the constructor of EuropeanStockOption returns exactly when strike,
\* maturity, spot price and notional are all positive and otherwise throws
\* InvalidArgument and leaves no object; every option that exists has the four
\* positive, and validate() on it returns, whatever engine and market data it
\* has been given.
C14_ConstructionValidates ==
    /\ \A i \in Options : AllPositive(instruments[i].params_)
    /\ last.op = "EuropeanStockOption" =>
           IF AllPositive(last.args[2])
           THEN last.res = Void /\ last.args[1] \in Options
           ELSE InvalidArgumentThrown(last.res) /\ last.args[1] \notin Options
    /\ last.op = "validate" => last.res = Void

\* validate() has returned on an option with an engine and a snapshot with a
\* rate and a volatility
C14_Witness ==
    /\ last.op = "validate"
    /\ last.res = Void
    /\ instruments[1].pricingEngine_ # 0
    /\ instruments[1].marketData_.yield_curve_ # EmptyMap
    /\ instruments[1].marketData_.vol_surface_ # EmptyMap

IsOptionCall == last.op \in {"price", "greeks"}

EngineNotSetThrown(res) ==
    /\ res.tag = "throw"
    /\ res.type = "std::runtime_error"
    /\ res.err = "EngineNotSet"

\* C15: price() and greeks() throw EngineNotSet exactly when pricingEngine_ is
\* null, never set or last set to a null pointer; the check comes before any
\* read of the market data, so without an engine the error is EngineNotSet
\* with an empty snapshot too, not the error of the empty curve.
C15_EngineNotSetIffNull ==
    IsOptionCall =>
        (EngineNotSetThrown(last.res) <=> instruments[last.args[1]].pricingEngine_ = 0)

\* price() without an engine on an option whose snapshot is empty
C15_Witness ==
    /\ last.op = "price"
    /\ instruments[1].pricingEngine_ = 0
    /\ instruments[1].marketData_.yield_curve_ = EmptyMap
    /\ EngineNotSetThrown(last.res)

\* C16: with an engine attached, price() returns what the engine's
\* calculatePrice returns for the option's parameters and its snapshot, times
\* the notional, and throws what it throws; greeks() returns the map of the
\* engine's calculateGreeks as it is, with no factor.
C16_PriceIsUnitPriceTimesNotional ==
    IsOptionCall /\ instruments[last.args[1]].pricingEngine_ # 0 =>
        LET option == instruments[last.args[1]]
            unit == calculatePriceValue(option.params_, option.marketData_)
            map == calculateGreeksValue(option.params_, option.marketData_)
        IN IF last.op = "greeks" THEN last.res = map
           ELSE IF unit.tag = "throw" THEN last.res = unit
           ELSE /\ last.res.tag = "ok"
                /\ last.res.val = SymScale(R(option.params_.notional_), unit.val)

\* price() has returned twice a unit price that is a number and not 0
C16_Witness ==
    /\ last.op = "price"
    /\ last.res.tag = "ok"
    /\ instruments[1].params_.notional_ = 2
    /\ ~IsSymNaN(last.res.val)
    /\ last.res.val # {}
    /\ last.res.val # calculatePriceValue(instruments[1].params_,
                                          instruments[1].marketData_).val

\* the caller's MarketData object
CallerMarketData == MarketData(yield_curve_, vol_surface_, strikes_, maturities_)

IsAdd == last.op \in {"addRiskFreeRate", "addVolatility"}

SnapshotByValue ==
    \A i \in Options :
        /\ IF last'.op = "updateMarketData" /\ last'.args[1] = i
           THEN instruments'[i].marketData_ = CallerMarketData
           ELSE instruments'[i].marketData_ = instruments[i].marketData_
        /\ IsAdd' => /\ priceValue(instruments'[i]) = priceValue(instruments[i])
                     /\ greeksValue(instruments'[i]) = greeksValue(instruments[i])

\* C17: updateMarketData(m) on an option makes its snapshot the whole of m as
\* m is at the call; no other call on this or another option changes the
\* snapshot, and an addRiskFreeRate or addVolatility on the caller's m
\* afterwards changes neither it nor what price() and greeks() give.
C17_SnapshotByValue == [][SnapshotByValue]_vars

\* price() has returned a value on a snapshot with a rate and a volatility
\* that the caller's object, changed since, would not give
C17_Witness ==
    /\ last.op = "price"
    /\ last.res.tag = "ok"
    /\ instruments[last.args[1]].marketData_ # CallerMarketData
    /\ last.res # TimesNotional(
                      calculatePriceValue(instruments[last.args[1]].params_,
                                          CallerMarketData),
                      instruments[last.args[1]].params_.notional_)

ParametersFixed ==
    /\ \A i \in Options : instruments'[i].params_ = instruments[i].params_
    /\ \A i \in InstrumentIds :
           i \notin Options /\ instruments'[i].alive =>
               /\ last'.op = "EuropeanStockOption"
               /\ instruments'[i].params_ = last'.args[2]
    /\ last'.op = "getParameters" =>
           last'.res = Ok(instruments[last'.args[1]].params_)

\* C18: the parameters of an option are those given to its constructor, all
\* five, from the moment it exists; no call changes them (setPricingEngine,
\* updateMarketData, validate, price, greeks, or any call on another object),
\* and getParameters() returns them.
C18_ParametersImmutable == [][ParametersFixed]_vars

\* getParameters() on an option with an engine and a snapshot returns the
\* five values of an in-the-money call
C18_Witness ==
    /\ last.op = "getParameters"
    /\ last.res = Ok(Parameters(2, 3, 2, 5, TRUE))
    /\ instruments[1].pricingEngine_ # 0
    /\ instruments[1].marketData_.vol_surface_ # EmptyMap

EnginePure ==
    /\ last'.op \in {"calculatePrice", "calculateGreeks", "price", "greeks"} =>
           UNCHANGED <<yield_curve_, vol_surface_, strikes_, maturities_,
                       instruments, engines>>
    /\ last'.op = "calculatePrice" =>
           last'.res = calculatePriceValue(instruments[last'.args[1]].params_,
                                           CallerMarketData)
    /\ last'.op = "calculateGreeks" =>
           last'.res = calculateGreeksValue(instruments[last'.args[1]].params_,
                                            CallerMarketData)
    /\ last'.op = "price" => last'.res = priceValue(instruments[last'.args[1]])
    /\ last'.op = "greeks" => last'.res = greeksValue(instruments[last'.args[1]])

\* C19: a call of calculatePrice or calculateGreeks, direct or through price()
\* or greeks() of an option, changes no engine, no option and no MarketData,
\* and its outcome is determined by the option's parameters and the market
\* data passed, whichever engine is called and whatever was called before.
\* So two options get from one shared engine, in any order of their calls,
\* what each gets from a clone of its own.
C19_EnginePure == [][EnginePure]_vars

\* price() of the put through the engine it shares with the call
C19_Witness ==
    /\ last.op = "price"
    /\ last.args = <<2>>
    /\ last.res.tag = "ok"
    /\ Options = {1, 2}
    /\ instruments[1].pricingEngine_ = instruments[2].pricingEngine_
    /\ Cardinality(engines) = 2

\* the rate and the volatility the engine reads for params in the caller's object
RateRead(params) == getRiskFreeRateValue(yield_curve_, params.maturity_)

VolatilityRead(params) ==
    getVolatilityValue(vol_surface_, strikes_, maturities_,
                       params.strike_, params.maturity_)

PositiveVolatility(params) ==
    /\ VolatilityRead(params).tag = "ok"
    /\ VolatilityRead(params).val[2] > 0
    /\ VolatilityRead(params).val[1] > 0

\* S - K * exp(-r * T)
ForwardValue(params) ==
    SymSub(SymConst(R(params.spotPrice_)),
           SymScale(R(params.strike_),
                    Exp(FNeg(FMul(RateRead(params).val, R(params.maturity_))))))

\* C20: put-call parity.  When calculatePrice returns for an option on market
\* data with a volatility > 0, the price it gives the call of these parameters
\* minus the price it gives the put of the same parameters on the same market
\* data is S - K * exp(-r * T), as an identity in N(d1), N(d2) and exp(-r * T).
C20_PutCallParity ==
    last.op = "calculatePrice" /\ last.res.tag = "ok"
        /\ PositiveVolatility(instruments[last.args[1]].params_) =>
        LET params == instruments[last.args[1]].params_
            call == calculatePriceValue([params EXCEPT !.isCall_ = TRUE],
                                        CallerMarketData)
            put == calculatePriceValue([params EXCEPT !.isCall_ = FALSE],
                                       CallerMarketData)
        IN /\ last.res = IF params.isCall_ THEN call ELSE put
           /\ SymSub(call.val, put.val) = ForwardValue(params)

\* calculatePrice has returned the price of a put at a rate and a volatility > 0
C20_Witness ==
    /\ last.op = "calculatePrice"
    /\ last.res.tag = "ok"
    /\ ~instruments[1].params_.isCall_
    /\ PositiveVolatility(instruments[1].params_)
    /\ RateRead(instruments[1].params_).val[1] > 0
    /\ ~IsSymNaN(last.res.val)

GreekNames == {"delta", "gamma", "vega", "theta", "rho"}

\* C21: calculateGreeks returns a map with exactly the keys delta, gamma,
\* vega, theta and rho for a call and for a put.  For the same S, K, T and
\* market data with a volatility > 0, the put's delta is the call's delta
\* minus 1, and gamma and vega are the same for the call and the put.
C21_GreeksOfCallAndPut ==
    last.op = "calculateGreeks" /\ last.res.tag = "ok" =>
        LET params == instruments[last.args[1]].params_
            call == calculateGreeksValue([params EXCEPT !.isCall_ = TRUE],
                                         CallerMarketData).val
            put == calculateGreeksValue([params EXCEPT !.isCall_ = FALSE],
                                        CallerMarketData).val
        IN /\ DOMAIN last.res.val = GreekNames
           /\ DOMAIN call = GreekNames
           /\ DOMAIN put = GreekNames
           /\ last.res.val = IF params.isCall_ THEN call ELSE put
           /\ PositiveVolatility(params) =>
                  /\ \A name \in GreekNames : ~IsSymNaN(last.res.val[name])
                  /\ put.delta = SymSub(call.delta, SymConst(R(1)))
                  /\ put.gamma = call.gamma
                  /\ put.vega = call.vega

\* calculateGreeks has returned the map of a put at a rate and a volatility > 0
C21_Witness ==
    /\ last.op = "calculateGreeks"
    /\ last.res.tag = "ok"
    /\ ~instruments[1].params_.isCall_
    /\ PositiveVolatility(instruments[1].params_)
    /\ RateRead(instruments[1].params_).val[1] > 0
    /\ last.res.val.gamma # {}

(***************************************************************************)
(* getVolatility: the bracketing step and the weights.                     *)
(***************************************************************************)
\* (k0, k1) and (t0, t1) of the last query
StrikePair == Bracket(strikes_, last.args[1])

MaturityPair == Bracket(maturities_, last.args[2])

BothCollapse == StrikePair[1] = StrikePair[2] /\ MaturityPair[1] = MaturityPair[2]

\* the query went past the collapse test and the four corner reads, to the
\* two quotients x_ratio and y_ratio
WeightsComputed == ReachedBracketing /\ ~BothCollapse /\ last.res.tag = "ok"

\* C22: getVolatility never divides by zero: whenever the weights
\* (strike - k0)/(k1 - k0) and (maturity - t0)/(t1 - t0) are computed,
\* k1 # k0 and t1 # t0.
C22_NoZeroDivisor ==
    WeightsComputed =>
        StrikePair[1] # StrikePair[2] /\ MaturityPair[1] # MaturityPair[2]

\* the pair of the bracketing step for the query q on the axis s, as the
\* sentence describes it
BoundaryCollapses(s, pair, q) ==
    /\ (q = s[1] \/ q = s[Len(s)]) => pair = <<q, q>>
    /\ \A a, b \in Elements(s) :
           Adjacent(Elements(s), a, b) /\ a < q /\ q < b => pair = <<a, b>>

\* C23: in the bracketing step of getVolatility a strike equal to the
\* smallest or the largest recorded strike gives k0 = k1 = that strike, and a
\* maturity equal to the smallest or the largest recorded maturity gives
\* t0 = t1; a value strictly between two adjacent recorded ones gives that
\* pair, k0 < strike < k1.
C23_BoundaryCollapses ==
    ReachedBracketing =>
        /\ BoundaryCollapses(strikes_, StrikePair, last.args[1])
        /\ BoundaryCollapses(maturities_, MaturityPair, last.args[2])

\* C24: when both axes collapse in getVolatility, k0 = k1 and t0 = t1, the
\* call returns the value stored at (k0, t0).
C24_BothCollapseReturnsGridValue ==
    ReachedBracketing /\ BothCollapse =>
        /\ Stored(StrikePair[1], MaturityPair[1])
        /\ last.res = Ok(R(vol_surface_[<<StrikePair[1], MaturityPair[1]>>]))

EmptyCurveThrown(res) ==
    /\ res.tag = "throw"
    /\ res.type = "std::runtime_error"
    /\ res.err = "EmptyCurve"

\* C25: with an engine attached, an exception of the engine's market-data
\* reads leaves price() and greeks() as it was thrown.  The rate is read
\* first: on a snapshot with an empty curve, as that of an option never
\* updated, the call throws EmptyCurve whatever the surface holds; on one with
\* a curve it throws what getVolatility(strike, maturity) of the option throws.
C25_MarketDataErrorPropagates ==
    IsOptionCall /\ instruments[last.args[1]].pricingEngine_ # 0 =>
        LET option == instruments[last.args[1]]
            rate == getRiskFreeRateValue(option.marketData_.yield_curve_,
                                         option.params_.maturity_)
            volatility == getVolatilityValue(option.marketData_.vol_surface_,
                                             option.marketData_.strikes_,
                                             option.marketData_.maturities_,
                                             option.params_.strike_,
                                             option.params_.maturity_)
        IN /\ option.marketData_.yield_curve_ = EmptyMap => EmptyCurveThrown(last.res)
           /\ option.marketData_.yield_curve_ # EmptyMap =>
                  /\ rate.tag = "ok"
                  /\ volatility.tag = "throw" => last.res = volatility
                  /\ volatility.tag = "ok" => last.res.tag = "ok"

\* price() has thrown the MissingDataPoint of getVolatility on a snapshot
\* with a curve
C25_Witness ==
    /\ last.op = "price"
    /\ instruments[1].pricingEngine_ # 0
    /\ instruments[1].marketData_.yield_curve_ # EmptyMap
    /\ last.res.tag = "throw"
    /\ last.res.err = "MissingDataPoint"

IsGetter == last.op \in {"getRiskFreeRate", "getVolatility"}

NothingRemoved ==
    /\ DOMAIN yield_curve_ \subseteq DOMAIN yield_curve_'
    /\ DOMAIN vol_surface_ \subseteq DOMAIN vol_surface_'
    /\ Elements(strikes_) \subseteq Elements(strikes_')
    /\ Elements(maturities_) \subseteq Elements(maturities_')

GrowsOnlyByAdds ==
    /\ NothingRemoved
    /\ IsGetter' \/ last'.res.tag = "throw" =>
           UNCHANGED <<yield_curve_, vol_surface_, strikes_, maturities_>>
    /\ last'.op = "addRiskFreeRate" =>
           UNCHANGED <<vol_surface_, strikes_, maturities_>>
    /\ last'.op = "addVolatility" => UNCHANGED yield_curve_

\* C26: a MarketData changes only by successful adds and never loses a key.
\* getRiskFreeRate, getVolatility and every add that throws leave the curve,
\* the surface and both axis lists as they were; an addRiskFreeRate that
\* returns changes the curve alone, an addVolatility that returns the surface
\* and its axis lists alone.
C26_GrowsOnlyByAdds == [][GrowsOnlyByAdds]_vars

\* an addVolatility has thrown on an object that holds a rate and a volatility
C26_Witness ==
    /\ last.op = "addVolatility"
    /\ last.res.tag = "throw"
    /\ yield_curve_ # EmptyMap
    /\ vol_surface_ # EmptyMap

\* a <= b for fractions that are numbers
FLeq(a, b) == a[2] > 0 /\ b[2] > 0 /\ a[1] * b[2] <= b[1] * a[2]

StoredRates == {yield_curve_[t] : t \in DOMAIN yield_curve_}

\* the rates of the two stored times around the query, when it lies strictly
\* between two adjacent ones
BracketingRates(time) ==
    {<<yield_curve_[q[1]], yield_curve_[q[2]]>> : q \in
        {p \in (DOMAIN yield_curve_) \X (DOMAIN yield_curve_) :
            Adjacent(DOMAIN yield_curve_, p[1], p[2]) /\ p[1] < time /\ time < p[2]}}

\* C27: a value getRiskFreeRate returns lies between the smallest and the
\* largest stored rate, and for a query strictly between two adjacent stored
\* times between the rates of these two; so no returned rate is negative.
C27_RateWithinStoredRates ==
    IsGetRiskFreeRate /\ last.res.tag = "ok" =>
        /\ FLeq(R(SetMin(StoredRates)), last.res.val)
        /\ FLeq(last.res.val, R(SetMax(StoredRates)))
        /\ \A p \in BracketingRates(last.args[1]) :
               /\ FLeq(R(SetMin({p[1], p[2]})), last.res.val)
               /\ FLeq(last.res.val, R(SetMax({p[1], p[2]})))
        /\ FLeq(R(0), last.res.val)

\* a rate strictly between the rates of the two points around the query, on a
\* curve of three points
C27_Witness ==
    /\ IsGetRiskFreeRate
    /\ last.res.tag = "ok"
    /\ Cardinality(DOMAIN yield_curve_) = 3
    /\ \E p \in BracketingRates(last.args[1]) :
           /\ p[1] # p[2]
           /\ last.res.val # R(p[1])
           /\ last.res.val # R(p[2])


(***************************************************************************)
(* DataFetcher: vocabulary of the claims.                                  *)
(***************************************************************************)
\* the last HTTP request of fetchHistoricalVolatility brought a document
LastResponded ==
    fetcher.requests > 0 /\ Len(fetcher.responses) = fetcher.requests

LastResponse == fetcher.responses[Len(fetcher.responses)]

\* fetchHistoricalVolatility, called by the caller, has ended
VolatilityCallEnded ==
    fetcher.call = "fetchHistoricalVolatility" /\ fetcher.pc = "done"

StockCallEnded == fetcher.call = "fetchStockData" /\ fetcher.pc = "done"

\* what the quote request can throw
QuoteErrors == {QuoteOf(answer) : answer \in QuoteAnswers} \ {Ok(SamplePrice)}

\* the call of fetchHistoricalVolatility inside fetchStockData has failed:
\* its last request brought no document, or the document gave no volatility
VolatilityFailed ==
    \/ Len(fetcher.responses) < fetcher.requests
    \/ LastResponded /\ VolatilityOf(LastResponse).tag = "throw"

Warned(text) == \E n \in 1..Len(fetcher.warnings) : fetcher.warnings[n][1] = text

\* C29: fetchStockData throws only for the missing API key or a failed
\* quote, and then before any field is assigned; a failure of the volatility
\* or of the risk-free rate is caught, reported and replaced by 0.30 or 0.05;
\* and a returned StockData has its three fields assigned.
C29_OnlyKeyAndQuoteFail ==
    /\ (StockCallEnded /\ fetcher.res.tag = "throw") =>
           /\ \/ fetcher.res = Throw("std::runtime_error", "ApiKeyNotFound",
                                     <<"alpha_vantage">>)
              \/ fetcher.res \in QuoteErrors
           /\ fetcher.requests = 0
           /\ fetcher.result = NoStockData
    /\ (fetcher.call = "fetchStockData" /\ fetcher.pc \in {"rate", "done"}
            /\ fetcher.requests > 0) =>
           /\ fetcher.result.volatility.set
           /\ VolatilityFailed <=> Warned("Could not calculate volatility")
           /\ VolatilityFailed =>
                  fetcher.result.volatility.val = DefaultVolatility
    /\ (StockCallEnded /\ fetcher.res.tag = "ok") =>
           /\ fetcher.res.val = fetcher.result
           /\ fetcher.result.spotPrice.set
           /\ fetcher.result.volatility.set
           /\ fetcher.result.riskFreeRate.set
           /\ Warned("Could not fetch risk-free rate") =>
                  fetcher.result.riskFreeRate.val = DefaultRate
    /\ (StockCallEnded /\ fetcher.requests > 0) => fetcher.res.tag = "ok"

\* a fetchStockData whose volatility request and rate request both failed
\* and that returned the price with the two defaults
C29_Witness ==
    /\ StockCallEnded
    /\ VolatilityFailed
    /\ Len(fetcher.warnings) = 2
    /\ fetcher.res = Ok([spotPrice |-> Assigned(SamplePrice),
                         volatility |-> Assigned(DefaultVolatility),
                         riskFreeRate |-> Assigned(DefaultRate)])

====
